---- MODULE Spec2Model ----
(***************************************************************************)
(* Model of mina-cli.  Each command is a run of its own:                   *)
(*                                                                         *)
(*   Spec         the bridge command (commands/bridge.tsx): the Bridge     *)
(*                component's state, its mount effect loadInitialData, the *)
(*                confirm input handler, the --yes auto-confirm timer,     *)
(*                executeBridge and the callbacks Mina.execute drives;     *)
(*   QuoteSpec    the quote command (commands/quote.tsx): fetchQuote;      *)
(*   HistorySpec  the history store (lib/history.ts);                      *)
(*   ConfigSpec   the configuration store (lib/config.ts) and the          *)
(*                `config set` command.                                    *)
(*                                                                         *)
(* The text shown beside the active step (currentStepDescription) is       *)
(* display only and is left out.                                           *)
(*                                                                         *)
(* Text typed by the user (chain selector, token selector, amount, config  *)
(* key and value) is a sequence of one-character strings, so that parsing, *)
(* lower-casing, splitting and number formatting are computed rather than  *)
(* assumed.                                                                *)
(***************************************************************************)
EXTENDS Integers, Sequences, FiniteSets, TLC

(***************************************************************************)
(* Bounds of the model.                                                    *)
(***************************************************************************)
MaxTime == 2
MaxTtl == 1
MaxHistoryCalls == 3
MaxConfigCalls == 3

(***************************************************************************)
(* Characters and strings.                                                 *)
(***************************************************************************)
Digits == <<"0", "1", "2", "3", "4", "5", "6", "7", "8", "9">>
Upper == <<"A", "B", "C", "D", "E", "F", "G", "H", "I", "J", "K", "L", "M",
           "N", "O", "P", "Q", "R", "S", "T", "U", "V", "W", "X", "Y", "Z">>
Lower == <<"a", "b", "c", "d", "e", "f", "g", "h", "i", "j", "k", "l", "m",
           "n", "o", "p", "q", "r", "s", "t", "u", "v", "w", "x", "y", "z">>

IsDigit(c) == \E i \in 1..10 : Digits[i] = c
DigitVal(c) == (CHOOSE i \in 1..10 : Digits[i] = c) - 1

\* String.prototype.toLowerCase on one character.
ToLowerChar(c) ==
    IF \E i \in 1..26 : Upper[i] = c
    THEN Lower[CHOOSE i \in 1..26 : Upper[i] = c]
    ELSE c

toLowerCase(s) == [i \in 1..Len(s) |-> ToLowerChar(s[i])]

RECURSIVE Pow10(_)
Pow10(n) == IF n = 0 THEN 1 ELSE 10 * Pow10(n - 1)

\* Number.prototype.toString of a non-negative integer.
RECURSIVE IntToStr(_)
IntToStr(n) ==
    IF n < 10 THEN <<Digits[n + 1]>>
    ELSE IntToStr(n \div 10) \o <<Digits[(n % 10) + 1]>>

\* The longest prefix of s made of decimal digits.
RECURSIVE DigitPrefix(_)
DigitPrefix(s) ==
    IF s = <<>> \/ ~IsDigit(Head(s)) THEN <<>>
    ELSE <<Head(s)>> \o DigitPrefix(Tail(s))

RECURSIVE DigitsToInt(_)
DigitsToInt(s) ==
    IF s = <<>> THEN 0
    ELSE 10 * DigitsToInt(SubSeq(s, 1, Len(s) - 1)) + DigitVal(s[Len(s)])

RECURSIVE SkipSpaces(_)
SkipSpaces(s) ==
    IF s # <<>> /\ Head(s) = " " THEN SkipSpaces(Tail(s)) ELSE s

Drop(s, n) == SubSeq(s, n + 1, Len(s))

(***************************************************************************)
(* parseFloat: leading blanks, an optional sign, digits, an optional       *)
(* fraction; the first character that fits no more ends the number and     *)
(* the rest is ignored.  The value is mant / 10^scale, negated when neg.   *)
(* Exponents and "Infinity" are outside the alphabet of the amounts used.  *)
(***************************************************************************)
NaN == [nan |-> TRUE, neg |-> FALSE, mant |-> 0, scale |-> 0]

parseFloat(str) ==
    LET s0 == SkipSpaces(str)
        signed == s0 # <<>> /\ Head(s0) \in {"-", "+"}
        neg == s0 # <<>> /\ Head(s0) = "-"
        s1 == IF signed THEN Tail(s0) ELSE s0
        whole == DigitPrefix(s1)
        s2 == Drop(s1, Len(whole))
        frac == IF s2 # <<>> /\ Head(s2) = "."
                THEN DigitPrefix(Tail(s2)) ELSE <<>>
    IN  IF whole = <<>> /\ frac = <<>> THEN NaN
        ELSE [nan |-> FALSE, neg |-> neg,
              mant |-> DigitsToInt(whole \o frac), scale |-> Len(frac)]

isNaN(x) == x.nan

\* x <= 0 for a parsed number (NaN compares false).
LeqZero(x) == ~x.nan /\ (x.mant = 0 \/ x.neg)

\* The last n digits of v, zero-padded on the left to n digits.
RECURSIVE FixedDigits(_, _)
FixedDigits(v, n) ==
    IF n = 0 THEN <<>>
    ELSE FixedDigits(v \div 10, n - 1) \o <<Digits[(v % 10) + 1]>>

RECURSIVE StripTrailingZeros(_)
StripTrailingZeros(s) ==
    IF s # <<>> /\ s[Len(s)] = "0"
    THEN StripTrailingZeros(SubSeq(s, 1, Len(s) - 1)) ELSE s

(***************************************************************************)
(* (x * Math.pow(10, decimals)).toString().  The product is computed       *)
(* exactly; a product that is not an integer prints with its fraction, as  *)
(* Number.prototype.toString does (binary rounding can change the last     *)
(* digits of such a fraction, never drop it), and NaN prints as "NaN".     *)
(***************************************************************************)
TimesPow10ToString(x, decimals) ==
    IF x.nan THEN <<"N", "a", "N">>
    ELSE LET num == x.mant * Pow10(decimals)
             den == Pow10(x.scale)
             sign == IF x.neg /\ x.mant # 0 THEN <<"-">> ELSE <<>>
         IN  IF num % den = 0
             THEN sign \o IntToStr(num \div den)
             ELSE sign \o IntToStr(num \div den) \o <<".">>
                  \o StripTrailingZeros(FixedDigits(num % den, x.scale))

(***************************************************************************)
(* parseAmount of the quote command: split on ".", pad the fraction with   *)
(* zeros to `decimals` digits, cut it there, and join it to the whole      *)
(* part ("0" when that is empty).                                          *)
(***************************************************************************)
RECURSIVE UpToDot(_)
UpToDot(s) ==
    IF s = <<>> \/ Head(s) = "." THEN <<>>
    ELSE <<Head(s)>> \o UpToDot(Tail(s))

padEnd(s, n) ==
    [i \in 1..(IF Len(s) >= n THEN Len(s) ELSE n) |->
        IF i <= Len(s) THEN s[i] ELSE "0"]

parseAmount(amount, decimals) ==
    LET whole == UpToDot(amount)
        rest == Drop(amount, Len(whole))
        fraction == IF rest = <<>> THEN <<>> ELSE UpToDot(Tail(rest))
        paddedFraction == SubSeq(padEnd(fraction, decimals), 1, decimals)
    IN  (IF whole = <<>> THEN <<"0">> ELSE whole) \o paddedFraction

(***************************************************************************)
(* What the SDK gateway answers.  getChains returns Chains in this order;  *)
(* getBridgeableTokens returns Tokens for every chain.  Fantom is a chain  *)
(* createSigner has no entry for.                                          *)
(***************************************************************************)
Arbitrum == [id |-> 42161,
             key |-> <<"a", "r", "b", "i", "t", "r", "u", "m">>,
             name |-> <<"A", "r", "b", "i", "t", "r", "u", "m">>]
Fantom == [id |-> 250,
           key |-> <<"f", "t", "m">>,
           name |-> <<"F", "a", "n", "t", "o", "m">>]
Chains == <<Arbitrum, Fantom>>

USDC == [symbol |-> <<"U", "S", "D", "C">>,
         address |-> <<"0", "x", "A", "F">>, decimals |-> 6]
GUSD == [symbol |-> <<"G", "U", "S", "D">>,
         address |-> <<"0", "x", "0", "5">>, decimals |-> 2]
Tokens == <<USDC, GUSD>>

\* A chainMap that also has an entry for Fantom (used to test C20).
ChainMapWithFantom == {1, 42161, 10, 137, 8453, 43114, 56, 999, 998, 250}

\* createSigner's chainMap keys.
SupportedChainIds == {1, 42161, 10, 137, 8453, 43114, 56, 999, 998}

(***************************************************************************)
(* Errors are records with a message and the code normalizeError reads;   *)
(* "NONE" is an error that carries no code.  RECOVERY_ACTIONS is the       *)
(* SDK's table from code to hint.                                          *)
(***************************************************************************)
NetworkError == [message |-> "request failed", code |-> "NETWORK_ERROR"]
PlainError == [message |-> "unexpected", code |-> "NONE"]
ThrownErrors == {NetworkError, PlainError}

normalizeError(err) ==
    [message |-> err.message,
     code |-> IF err.code = "NONE" THEN "UNKNOWN_ERROR" ELSE err.code]

RECOVERY_ACTIONS ==
    [c \in {"NETWORK_ERROR"} |-> "Check your connection and try again"]

(***************************************************************************)
(* The command line: --from, --token, --amount, --yes.                     *)
(***************************************************************************)
Froms == { <<"A", "R", "B", "I", "T", "R", "U", "M">>,
           <<"4", "2", "1", "6", "1">>,
           <<"f", "t", "m">>,
           <<"s", "o", "l">> }
TokenArgs == { <<"u", "s", "d", "c">>, <<"0", "x", "0", "5">>, <<"d", "a", "i">> }
Amounts == { <<"5">>,
             <<"1", ".", "5">>,
             <<"0", ".", "0", "0", "0", "0", "0", "0", "1">>,
             <<"0", ".", "0">>,
             <<"-", "1">>,
             <<"a", "b", "c">> }

Phases == <<"loading", "quote", "approval", "bridge", "confirm">>
PhaseSet == {Phases[i] : i \in 1..5}

\* The step-change events Mina.execute can report.
Steps == {"approval", "bridge", "swap", "deposit"}
Statuses == {"pending", "active", "completed", "failed"}

\* What the user can type: key.return, or one character.
Inputs == {"return", "y", "Y", "n", "N", "q", "x"}

VARIABLES
    options,                 \* BridgeCommandOptions
    state,                   \* BridgeState
    chain, token, quote,     \* useState values; <<>> is null, <<v>> is v
    walletAddress, privateKey,
    error, recoveryAction, result,
    stepState,               \* BridgeStepState
    loadPc,                  \* the call loadInitialData is awaiting
    execPc,                  \* the call executeBridge is awaiting
    timer,                   \* the auto-confirm setTimeout
    exited,                  \* useApp().exit() was called
    now,                     \* wall clock
    quoteRequests,           \* the getQuote calls made, in order
    executeCalls,            \* the Mina.execute calls made, in order
    thrown,                  \* the exception raised last, <<>> if none
    wf,                      \* how much of WellFormed the run has followed
    wasActive,               \* the phases that have been active
    quoteDisplay,            \* the quote command's QuoteDisplay component
    historyFile,             \* ~/.mina/history.json
    historyLog,              \* the entries given to addHistory, in order
    historyCall,             \* the last call of lib/history.ts and its return
    configFile,              \* ~/.mina/config.json
    configCall,              \* the last call of lib/config.ts and its outcome
    defaultRpc,              \* DEFAULT_CONFIG.rpc in the memory of the process
    race,                    \* two processes inside addHistory/updateHistory
    statusView,              \* the status command's Status component
    wizard                   \* the wizard's Wizard component

\* The state of the bridge command, and the state outside it.
bridgeVars == <<options, state, chain, token, quote, walletAddress, privateKey,
                error, recoveryAction, result, stepState,
                loadPc, execPc, timer, exited, now, quoteRequests,
                executeCalls, thrown, wf, wasActive>>
more == <<defaultRpc, race, statusView, wizard>>
others == <<quoteDisplay, historyFile, historyLog, historyCall,
            configFile, configCall, more>>
vars == <<bridgeVars, others>>

(***************************************************************************)
(* Each command is a separate run of the program.  While one command runs, *)
(* the state of the others is at rest: the components are not mounted and  *)
(* the files are as the run found them.                                    *)
(***************************************************************************)
QuoteNotRun == [pc |-> "off"]
NoHistoryFile == [kind |-> "missing", entries |-> <<>>]
NoConfigFile == [kind |-> "missing", data |-> <<>>]
NoCall == [op |-> "none", n |-> 0]

NoRace == [pc |-> "off"]
StatusNotRun == [pc |-> "off"]
WizardNotRun == [pc |-> "off"]

MoreAtRest ==
    /\ defaultRpc = <<>>
    /\ race = NoRace
    /\ statusView = StatusNotRun
    /\ wizard = WizardNotRun

OthersAtRest ==
    /\ MoreAtRest
    /\ quoteDisplay = QuoteNotRun
    /\ historyFile = NoHistoryFile
    /\ historyLog = <<>>
    /\ historyCall = NoCall
    /\ configFile = NoConfigFile
    /\ configCall = NoCall

\* The values of the first render: what useState was given.
FirstRender ==
    [quote |-> <<>>, chain |-> <<>>, token |-> <<>>,
     privateKey |-> <<>>, walletAddress |-> <<>>]

\* The values of the latest render.
CurrentRender ==
    [quote |-> quote, chain |-> chain, token |-> token,
     privateKey |-> privateKey, walletAddress |-> walletAddress]

Init ==
    /\ options \in [from : Froms, token : TokenArgs, amount : Amounts,
                    yes : BOOLEAN]
    /\ state = "loading"
    /\ chain = <<>> /\ token = <<>> /\ quote = <<>>
    /\ walletAddress = <<>> /\ privateKey = <<>>
    /\ error = <<>> /\ recoveryAction = <<>> /\ result = <<>>
    /\ stepState = [p \in PhaseSet |-> IF p = "loading" THEN "active" ELSE "pending"]
    /\ loadPc = "mount"
    /\ execPc = "idle"
    /\ timer = "none"
    /\ exited = FALSE
    /\ now = 0
    /\ quoteRequests = <<>>
    /\ executeCalls = <<>>
    /\ thrown = <<>>
    /\ wf = 0
    /\ wasActive = {"loading"}
    /\ OthersAtRest

(***************************************************************************)
(* Helpers of the actions.                                                 *)
(***************************************************************************)
\* Array.prototype.find, given the indices of the elements that satisfy the
\* predicate: the first of them, <<>> if there is none.
Find(seq, hits) ==
    IF hits = {} THEN <<>>
    ELSE <<seq[CHOOSE i \in hits : \A j \in hits : i <= j]>>

\* The predicate of the chain lookup: key or name without case, or the id.
ChainMatches(c) ==
    \/ toLowerCase(c.key) = toLowerCase(options.from)
    \/ toLowerCase(c.name) = toLowerCase(options.from)
    \/ IntToStr(c.id) = options.from

\* The predicate of the token lookup: symbol or address without case.
TokenMatches(t) ==
    \/ toLowerCase(t.symbol) = toLowerCase(options.token)
    \/ toLowerCase(t.address) = toLowerCase(options.token)

\* setStepState; wasActive records the phases the new value shows active.
SetStepState(new) ==
    /\ stepState' = new
    /\ wasActive' = wasActive \cup {p \in PhaseSet : new[p] = "active"}

\* The hint lookup both catch blocks make.
RecoveryLookup(normalizedError) ==
    IF normalizedError.code \in DOMAIN RECOVERY_ACTIONS
    THEN <<RECOVERY_ACTIONS[normalizedError.code]>>
    ELSE recoveryAction

\* The catch block of loadInitialData.
LoadCatch(err) ==
    /\ thrown' = <<err>>
    /\ error' = <<normalizeError(err)>>
    /\ recoveryAction' = RecoveryLookup(normalizeError(err))
    /\ SetStepState([stepState EXCEPT
            !.loading = IF @ = "active" THEN "failed" ELSE @,
            !.quote = IF @ = "active" THEN "failed" ELSE @])
    /\ state' = "failed"
    /\ loadPc' = "done"

\* A catch block that records the error and leaves the state as it was
\* (used to test C8).
ExecuteCatchKeepsState(err) ==
    /\ thrown' = <<err>>
    /\ error' = <<normalizeError(err)>>
    /\ recoveryAction' = RecoveryLookup(normalizeError(err))
    /\ UNCHANGED state
    /\ execPc' = "done"

\* The catch block of executeBridge.
ExecuteCatch(err) ==
    /\ thrown' = <<err>>
    /\ error' = <<normalizeError(err)>>
    /\ recoveryAction' = RecoveryLookup(normalizeError(err))
    /\ state' = "failed"
    /\ execPc' = "done"

(***************************************************************************)
(* executeBridge up to its first await, called with the values its         *)
(* closure holds: it returns at once when one of them is null.             *)
(***************************************************************************)
ExecuteBridge(c) ==
    IF \/ c.quote = <<>> \/ c.chain = <<>> \/ c.token = <<>>
       \/ c.privateKey = <<>> \/ c.walletAddress = <<>>
    THEN UNCHANGED <<state, stepState, wasActive, execPc>>
    ELSE /\ state' = "executing"
         /\ SetStepState([stepState EXCEPT !.approval = "active"])
         /\ execPc' = "createSigner"

\* A timer that calls the executeBridge of the latest render (used to test
\* C10).
TimerClosureLatest == CurrentRender

(***************************************************************************)
(* The closure the auto-confirm timer calls.  loadInitialData runs once,   *)
(* from the mount effect (dependency list []), so the executeBridge it     *)
(* names is the first render's, created over the first render's values.    *)
(***************************************************************************)
TimerClosure == FirstRender

\* The closure useInput calls: the handler is replaced on every render.
InputClosure == CurrentRender

(***************************************************************************)
(* loadInitialData                                                         *)
(***************************************************************************)
\* The mount effect calls loadInitialData, which runs to its first await.
Mount ==
    /\ loadPc = "mount"
    /\ SetStepState([stepState EXCEPT !.loading = "active"])
    /\ loadPc' = "loadPrivateKey"
    /\ UNCHANGED <<options, state, chain, token, quote, walletAddress,
                   privateKey, error, recoveryAction, result,
                   execPc, timer, exited, now,
                   quoteRequests, executeCalls, thrown, wf>>
    /\ UNCHANGED others

\* loadPrivateKey resolves.
LoadPrivateKeyReturns ==
    /\ loadPc = "loadPrivateKey"
    /\ privateKey' = <<"0xkey">>
    /\ loadPc' = "getAddressFromPrivateKey"
    /\ UNCHANGED <<options, state, chain, token, quote, walletAddress,
                   error, recoveryAction, result, stepState, wasActive, execPc, timer, exited, now,
                   quoteRequests, executeCalls, thrown, wf>>
    /\ UNCHANGED others

\* getAddressFromPrivateKey resolves.
GetAddressReturns ==
    /\ loadPc = "getAddressFromPrivateKey"
    /\ walletAddress' = <<"0xaddress">>
    /\ loadPc' = "getChains"
    /\ UNCHANGED <<options, state, chain, token, quote, privateKey,
                   error, recoveryAction, result, stepState, wasActive, execPc, timer, exited, now,
                   quoteRequests, executeCalls, thrown, wf>>
    /\ UNCHANGED others

\* getChains resolves; the chain is looked up, and is missing or set.
GetChainsReturns ==
    /\ loadPc = "getChains"
    /\ LET foundChain == Find(Chains,
                           {i \in 1..Len(Chains) : ChainMatches(Chains[i])})
       IN  IF foundChain = <<>>
           THEN /\ LoadCatch([message |-> "Chain not found", code |-> "NONE"])
                /\ UNCHANGED chain
           ELSE /\ chain' = foundChain
                /\ loadPc' = "getBridgeableTokens"
                /\ UNCHANGED <<state, error, recoveryAction, stepState,
                               wasActive, thrown>>
    /\ UNCHANGED <<options, token, quote, walletAddress, privateKey, result,
                   execPc, timer, exited, now,
                   quoteRequests, executeCalls, wf>>
    /\ UNCHANGED others

\* getBridgeableTokens resolves; the token is looked up; found, the amount
\* is converted and getQuote is called.
GetTokensReturns ==
    /\ loadPc = "getBridgeableTokens"
    /\ LET foundToken == Find(Tokens,
                           {i \in 1..Len(Tokens) : TokenMatches(Tokens[i])})
       IN  IF foundToken = <<>>
           THEN /\ LoadCatch([message |-> "Token not found", code |-> "NONE"])
                /\ UNCHANGED <<token, quoteRequests>>
           ELSE /\ token' = foundToken
                /\ SetStepState([stepState EXCEPT !.loading = "completed",
                                                  !.quote = "active"])
                /\ quoteRequests' = Append(quoteRequests,
                      [fromChainId |-> chain[1].id,
                       fromToken |-> foundToken[1].address,
                       decimals |-> foundToken[1].decimals,
                       amount |-> options.amount,
                       fromAmount |-> TimesPow10ToString(
                           parseFloat(options.amount), foundToken[1].decimals),
                       fromAddress |-> walletAddress[1]])
                /\ loadPc' = "getQuote"
                /\ UNCHANGED <<state, error, recoveryAction, thrown>>
    /\ UNCHANGED <<options, chain, quote, walletAddress, privateKey, result,
                   execPc, timer, exited, now,
                   executeCalls, wf>>
    /\ UNCHANGED others

\* getQuote resolves with a quote that expires ttl from now; with --yes the
\* auto-confirm timer is set.
GetQuoteReturns ==
    /\ loadPc = "getQuote"
    /\ \E ttl \in 1..MaxTtl :
          quote' = <<[fromAmount |-> quoteRequests[Len(quoteRequests)].fromAmount,
                      expiresAt |-> now + ttl]>>
    /\ SetStepState([stepState EXCEPT !.quote = "completed"])
    /\ state' = "confirming"
    /\ timer' = IF options.yes THEN "armed" ELSE timer
    /\ loadPc' = "done"
    /\ UNCHANGED <<options, chain, token, walletAddress, privateKey, error,
                   recoveryAction, result, execPc,
                   exited, now, quoteRequests, executeCalls, thrown, wf>>
    /\ UNCHANGED others

\* The call loadInitialData awaits rejects.
LoadThrows ==
    /\ loadPc \in {"loadPrivateKey", "getAddressFromPrivateKey", "getChains",
                   "getBridgeableTokens", "getQuote"}
    /\ \E err \in ThrownErrors : LoadCatch(err)
    /\ UNCHANGED <<options, chain, token, quote, walletAddress, privateKey,
                   result, execPc, timer, exited,
                   now, quoteRequests, executeCalls, wf>>
    /\ UNCHANGED others

(***************************************************************************)
(* Confirmation: the input handler and the auto-confirm timer.             *)
(***************************************************************************)
\* useInput: one key press, handled with the latest render's values.
KeyPress(input) ==
    /\ ~exited
    /\ IF state = "confirming" /\ input \in {"return", "y", "Y"}
       THEN /\ ExecuteBridge(InputClosure)
            /\ UNCHANGED exited
       ELSE IF \/ state = "confirming" /\ input \in {"n", "N", "q"}
               \/ state \in {"completed", "failed"} /\ input \in {"return", "q"}
            THEN /\ exited' = TRUE
                 /\ UNCHANGED <<state, stepState, wasActive, execPc>>
            ELSE UNCHANGED <<exited, state, stepState, wasActive, execPc>>
    /\ UNCHANGED <<options, chain, token, quote, walletAddress, privateKey,
                   error, recoveryAction, result, loadPc, timer, now, quoteRequests, executeCalls, thrown, wf>>
    /\ UNCHANGED others

\* The 500 ms timer set after the quote arrived with --yes.
TimerFires ==
    /\ timer = "armed"
    /\ timer' = "fired"
    /\ ExecuteBridge(TimerClosure)
    /\ UNCHANGED <<options, chain, token, quote, walletAddress, privateKey,
                   error, recoveryAction, result, loadPc, exited, now, quoteRequests, executeCalls, thrown, wf>>
    /\ UNCHANGED others

(***************************************************************************)
(* executeBridge after its first await.                                    *)
(***************************************************************************)
\* createSigner resolves for a chain of its chainMap and Mina.execute is
\* called; for any other chain id it throws.
CreateSignerReturns ==
    /\ execPc = "createSigner"
    /\ IF chain[1].id \in SupportedChainIds
       THEN /\ executeCalls' = Append(executeCalls,
                   [quote |-> quote[1], signerChainId |-> chain[1].id,
                    at |-> now])
            /\ execPc' = "execute"
            /\ UNCHANGED <<state, error, recoveryAction, thrown>>
       ELSE /\ ExecuteCatch([message |-> "Unsupported chain ID", code |-> "NONE",
                             supported |-> SupportedChainIds])
            /\ UNCHANGED executeCalls
    /\ UNCHANGED <<options, chain, token, quote, walletAddress, privateKey,
                   result, stepState, wasActive,
                   loadPc, timer, exited, now, quoteRequests, wf>>
    /\ UNCHANGED others

\* A callback that completes approval without activating bridge (used to
\* test C4).
onStepChangeSkipsActive(prev, step, status) ==
    IF step = "approval" THEN
        IF status = "completed" THEN [prev EXCEPT !.approval = "completed"]
        ELSE IF status = "failed" THEN [prev EXCEPT !.approval = "failed"]
        ELSE prev
    ELSE IF step \in {"bridge", "swap"} THEN
        IF status = "completed"
        THEN [prev EXCEPT !.bridge = "completed", !.confirm = "active"]
        ELSE IF status = "failed" THEN [prev EXCEPT !.bridge = "failed"]
        ELSE prev
    ELSE IF step = "deposit" THEN
        IF status = "completed" THEN [prev EXCEPT !.confirm = "completed"]
        ELSE IF status = "failed" THEN [prev EXCEPT !.confirm = "failed"]
        ELSE prev
    ELSE prev

\* The onStepChange callback as a function of the previous step state.
onStepChange(prev, step, status) ==
    IF step = "approval" THEN
        IF status = "completed"
        THEN [prev EXCEPT !.approval = "completed", !.bridge = "active"]
        ELSE IF status = "failed" THEN [prev EXCEPT !.approval = "failed"]
        ELSE prev
    ELSE IF step \in {"bridge", "swap"} THEN
        IF status = "completed"
        THEN [prev EXCEPT !.bridge = "completed", !.confirm = "active"]
        ELSE IF status = "failed" THEN [prev EXCEPT !.bridge = "failed"]
        ELSE prev
    ELSE IF step = "deposit" THEN
        IF status = "completed" THEN [prev EXCEPT !.confirm = "completed"]
        ELSE IF status = "failed" THEN [prev EXCEPT !.confirm = "failed"]
        ELSE prev
    ELSE prev

\* The event sequence of a run that goes well, deposit standing for the
\* confirm phase.
WellFormed ==
    << <<"approval", "completed">>, <<"bridge", "active">>,
       <<"bridge", "completed">>, <<"deposit", "active">>,
       <<"deposit", "completed">> >>

\* Mina.execute reports a step change.
StepChange(step, status) ==
    /\ execPc = "execute"
    /\ SetStepState(onStepChange(stepState, step, status))
    /\ wf' = IF wf \in 0..4 /\ WellFormed[wf + 1] = <<step, status>>
             THEN wf + 1 ELSE -1
    /\ UNCHANGED <<options, state, chain, token, quote, walletAddress,
                   privateKey, error, recoveryAction, result, loadPc, execPc,
                   timer, exited, now, quoteRequests, executeCalls, thrown>>
    /\ UNCHANGED others

\* The results Mina.execute can resolve with.
ExecutionResults ==
    { [status |-> "completed", error |-> <<>>],
      [status |-> "failed", error |-> <<>>],
      [status |-> "failed", error |-> <<NetworkError>>],
      [status |-> "failed", error |-> <<PlainError>>] }

\* Mina.execute resolves.
ExecuteReturns(executeResult) ==
    /\ execPc = "execute"
    /\ result' = <<executeResult>>
    /\ IF executeResult.status = "completed"
       THEN /\ SetStepState([stepState EXCEPT !.approval = "completed",
                                              !.bridge = "completed",
                                              !.confirm = "completed"])
            /\ state' = "completed"
            /\ UNCHANGED error
       ELSE /\ error' = IF executeResult.error # <<>> THEN executeResult.error
                        ELSE <<[message |-> "Bridge execution failed",
                                code |-> "NONE"]>>
            /\ state' = "failed"
            /\ UNCHANGED <<stepState, wasActive>>
    /\ wf' = IF wf = 5 /\ executeResult.status = "completed" THEN 6 ELSE -1
    /\ execPc' = "done"
    /\ UNCHANGED <<options, chain, token, quote, walletAddress, privateKey,
                   recoveryAction, loadPc, timer,
                   exited, now, quoteRequests, executeCalls, thrown>>
    /\ UNCHANGED others

\* createSigner or Mina.execute rejects.
ExecuteThrows ==
    /\ execPc \in {"createSigner", "execute"}
    /\ \E err \in ThrownErrors : ExecuteCatch(err)
    /\ UNCHANGED <<options, chain, token, quote, walletAddress, privateKey,
                   result, stepState, wasActive,
                   loadPc, timer, exited, now, quoteRequests, executeCalls, wf>>
    /\ UNCHANGED others

\* Time passes while the quote waits for the confirmation.  The clock is
\* only ever compared with the quote's expiry, so it starts with the quote.
Tick ==
    /\ state = "confirming"
    /\ now < MaxTime
    /\ now' = now + 1
    /\ UNCHANGED <<options, state, chain, token, quote, walletAddress,
                   privateKey, error, recoveryAction, result,
                   stepState, loadPc, execPc, timer,
                   exited, quoteRequests, executeCalls, thrown, wf, wasActive>>
    /\ UNCHANGED others

Next ==
    \/ Mount
    \/ LoadPrivateKeyReturns
    \/ GetAddressReturns
    \/ GetChainsReturns
    \/ GetTokensReturns
    \/ GetQuoteReturns
    \/ LoadThrows
    \/ \E input \in Inputs : KeyPress(input)
    \/ TimerFires
    \/ CreateSignerReturns
    \/ \E step \in Steps, status \in Statuses : StepChange(step, status)
    \/ \E executeResult \in ExecutionResults : ExecuteReturns(executeResult)
    \/ ExecuteThrows
    \/ Tick

Spec == Init /\ [][Next]_vars

(***************************************************************************)
(* The bridge command at rest, for the runs of the other commands.         *)
(***************************************************************************)
BridgeNotRun ==
    /\ options = [from |-> <<>>, token |-> <<>>, amount |-> <<>>, yes |-> FALSE]
    /\ state = "loading"
    /\ chain = <<>> /\ token = <<>> /\ quote = <<>>
    /\ walletAddress = <<>> /\ privateKey = <<>>
    /\ error = <<>> /\ recoveryAction = <<>> /\ result = <<>>
    /\ stepState = [p \in PhaseSet |-> IF p = "loading" THEN "active" ELSE "pending"]
    /\ loadPc = "off"
    /\ execPc = "idle"
    /\ timer = "none"
    /\ exited = FALSE
    /\ now = 0
    /\ quoteRequests = <<>>
    /\ executeCalls = <<>>
    /\ thrown = <<>>
    /\ wf = 0
    /\ wasActive = {"loading"}

(***************************************************************************)
(* The quote command (commands/quote.tsx): QuoteDisplay and the fetchQuote *)
(* its mount effect runs.  quoteDisplay holds the props, the useState      *)
(* values (<<>> is null), the call fetchQuote is awaiting and the getQuote *)
(* requests made.                                                          *)
(***************************************************************************)
\* --from values of the quote command.
QuoteFroms == { <<"4", "2", "1", "6", "1">>,
                <<"A", "r", "b", "i", "t", "r", "u", "m">>,
                <<"a", "r", "b", "i", "t", "r", "u", "m">>,
                <<"A", "R", "B", "I", "T", "R", "U", "M">>,
                <<"f", "t", "m">>,
                <<"s", "o", "l">> }

QuoteDisplay(fromChain, tokenArg, amount) ==
    [fromChain |-> fromChain, token |-> tokenArg, amount |-> amount,
     pc |-> "mount", loading |-> TRUE, error |-> <<>>, quote |-> <<>>,
     sourceChain |-> <<>>, sourceToken |-> <<>>, requests |-> <<>>]

QuoteInit ==
    /\ BridgeNotRun
    /\ MoreAtRest
    /\ quoteDisplay \in {QuoteDisplay(f, t, a) :
                            f \in QuoteFroms, t \in TokenArgs, a \in Amounts}
    /\ historyFile = NoHistoryFile
    /\ historyLog = <<>>
    /\ historyCall = NoCall
    /\ configFile = NoConfigFile
    /\ configCall = NoCall

QuoteFrame == UNCHANGED <<bridgeVars, historyFile, historyLog, historyCall,
                          configFile, configCall, more>>

\* The catch and finally blocks of fetchQuote.
QuoteCatch(message) ==
    quoteDisplay' = [quoteDisplay EXCEPT !.error = <<message>>,
                                         !.loading = FALSE, !.pc = "done"]

\* The predicate of the quote command's chain lookup: name or key without
\* case.
QuoteChainMatches(c) ==
    \/ toLowerCase(c.name) = toLowerCase(quoteDisplay.fromChain)
    \/ toLowerCase(c.key) = toLowerCase(quoteDisplay.fromChain)

\* The predicate of the quote command's token lookup: symbol without case.
QuoteTokenMatches(t) ==
    toLowerCase(t.symbol) = toLowerCase(quoteDisplay.token)

\* The mount effect calls fetchQuote, which validates the amount and runs to
\* its first await.
QuoteMount ==
    /\ quoteDisplay.pc = "mount"
    /\ LET numAmount == parseFloat(quoteDisplay.amount)
       IN  IF isNaN(numAmount) \/ LeqZero(numAmount)
           THEN QuoteCatch("Invalid amount. Please provide a positive number.")
           ELSE quoteDisplay' = [quoteDisplay EXCEPT !.pc = "getChains"]
    /\ QuoteFrame

\* getChains resolves; the chain is looked up, and is unknown or set.
QuoteGetChainsReturns ==
    /\ quoteDisplay.pc = "getChains"
    /\ LET found == Find(Chains, {i \in 1..Len(Chains) :
                                    QuoteChainMatches(Chains[i])})
       IN  IF found = <<>>
           THEN QuoteCatch("Unknown chain")
           ELSE quoteDisplay' = [quoteDisplay EXCEPT !.sourceChain = found,
                                                     !.pc = "getTokens"]
    /\ QuoteFrame

\* getTokens resolves; the token is looked up; found, the amount is
\* converted and getQuote is called.
QuoteGetTokensReturns ==
    /\ quoteDisplay.pc = "getTokens"
    /\ LET found == Find(Tokens, {i \in 1..Len(Tokens) :
                                    QuoteTokenMatches(Tokens[i])})
       IN  IF found = <<>>
           THEN QuoteCatch("Token not found")
           ELSE quoteDisplay' =
                  [quoteDisplay EXCEPT
                     !.sourceToken = found,
                     !.requests = Append(@,
                        [fromChainId |-> quoteDisplay.sourceChain[1].id,
                         fromToken |-> found[1].address,
                         decimals |-> found[1].decimals,
                         amount |-> quoteDisplay.amount,
                         fromAmount |-> parseAmount(quoteDisplay.amount,
                                                    found[1].decimals)]),
                     !.pc = "getQuote"]
    /\ QuoteFrame

\* getQuote resolves.
QuoteGetQuoteReturns ==
    /\ quoteDisplay.pc = "getQuote"
    /\ quoteDisplay' = [quoteDisplay EXCEPT
                          !.quote = <<quoteDisplay.requests[Len(quoteDisplay.requests)].fromAmount>>,
                          !.loading = FALSE, !.pc = "done"]
    /\ QuoteFrame

\* The call fetchQuote awaits rejects.
QuoteFetchThrows ==
    /\ quoteDisplay.pc \in {"getChains", "getTokens", "getQuote"}
    /\ \E err \in ThrownErrors : QuoteCatch(err.message)
    /\ QuoteFrame

QuoteNext ==
    \/ QuoteMount
    \/ QuoteGetChainsReturns
    \/ QuoteGetTokensReturns
    \/ QuoteGetQuoteReturns
    \/ QuoteFetchThrows

QuoteSpec == QuoteInit /\ [][QuoteNext]_vars

(***************************************************************************)
(* The history store (lib/history.ts).  historyFile is the file: missing,  *)
(* not parseable, parseable without an entries field, or holding entries.  *)
(* An entry's optional fields are <<>> when absent; its timestamp is the   *)
(* number of the addHistory call that added it.  Each call of the library  *)
(* is one action, and historyCall keeps the call and what it returned.     *)
(***************************************************************************)
MAX_HISTORY_ENTRIES == 100

\* What the calls are given: the tx hash and wallet of a new entry, the tx
\* hash an update names, the limit and the address filter of a read (<<>>
\* is no address, <<"">> the empty string).
TxHashes == {"0xa1", "0xa2"}
Wallets == { <<>>, << <<"0", "x", "A", "B">> >>, << <<"0", "x", "c", "d">> >> }
UpdateHashes == {"0xa1", "0xA1"}
Limits == {0, 1, 2}
Addresses == { <<>>, << <<>> >>, << <<"0", "x", "a", "b">> >>,
               << <<"0", "x", "c", "d">> >> }

\* The entry the n-th addHistory call is given.
HistoryEntry(txHash, wallet, n) ==
    [txHash |-> txHash, walletAddress |-> wallet, status |-> "pending",
     timestamp |-> n, bridgeTxHash |-> <<>>, depositTxHash |-> <<>>]

\* A file that n earlier addHistory calls have written.
Written(n) ==
    [kind |-> "data",
     entries |-> [i \in 1..n |->
                    HistoryEntry("0xa0", << <<"0", "x", "a", "b">> >>, i)]]

\* The partial updates updateHistory is given.
Updates ==
    { [bridgeTxHash |-> <<"0xb1">>],
      [status |-> "completed", depositTxHash |-> <<"0xd1">>] }

\* Array.prototype.slice(start) with one argument.
Slice(seq, start) ==
    LET from == IF start < 0
                THEN (IF Len(seq) + start < 0 THEN 0 ELSE Len(seq) + start)
                ELSE (IF start > Len(seq) THEN Len(seq) ELSE start)
    IN  SubSeq(seq, from + 1, Len(seq))

\* Array.prototype.reverse.
Reverse(seq) == [i \in 1..Len(seq) |-> seq[Len(seq) + 1 - i]]

\* data.entries of the parsed file, <<>> when the field is absent.
EntriesOf(file) == IF file.kind = "data" THEN file.entries ELSE <<>>

\* A trim that keeps the oldest entries (used to test C13).
TrimKeepsOldest(entries) ==
    IF Len(entries) > MAX_HISTORY_ENTRIES
    THEN SubSeq(entries, 1, MAX_HISTORY_ENTRIES)
    ELSE entries

\* The trim of addHistory.
Trim(entries) ==
    IF Len(entries) > MAX_HISTORY_ENTRIES
    THEN Slice(entries, 0 - MAX_HISTORY_ENTRIES)
    ELSE entries

\* A merge that clears the optional fields the update does not name (used
\* to test C15).
MergeClearsUnnamed(entry, updates) ==
    [f \in DOMAIN entry |->
        IF f \in DOMAIN updates THEN updates[f]
        ELSE IF f \in {"bridgeTxHash", "depositTxHash"} THEN <<>>
        ELSE entry[f]]

\* { ...entry, ...updates }
Merge(entry, updates) ==
    [f \in DOMAIN entry |-> IF f \in DOMAIN updates THEN updates[f] ELSE entry[f]]

HistoryFrame == UNCHANGED <<bridgeVars, quoteDisplay, configFile, configCall,
                            more>>

HistoryInit ==
    /\ BridgeNotRun
    /\ MoreAtRest
    /\ quoteDisplay = QuoteNotRun
    /\ configFile = NoConfigFile
    /\ configCall = NoCall
    /\ historyFile \in {NoHistoryFile,
                        [kind |-> "corrupt", entries |-> <<>>],
                        [kind |-> "noentries", entries |-> <<>>],
                        Written(MAX_HISTORY_ENTRIES - 1),
                        Written(MAX_HISTORY_ENTRIES)}
    /\ historyLog = historyFile.entries
    /\ historyCall = NoCall

\* addHistory(entry)
AddHistory(txHash, wallet) ==
    /\ historyCall.n < MaxHistoryCalls
    /\ LET entry == HistoryEntry(txHash, wallet, Len(historyLog) + 1)
       IN  /\ historyFile' =
                [kind |-> "data",
                 entries |-> Trim(Append(EntriesOf(historyFile), entry))]
           /\ historyLog' = Append(historyLog, entry)
    /\ historyCall' = [op |-> "addHistory", n |-> historyCall.n + 1]
    /\ HistoryFrame

\* updateHistory(txHash, updates); index is what findIndex returned.
UpdateHistory(txHash, updates) ==
    /\ historyCall.n < MaxHistoryCalls
    /\ LET entries == historyFile.entries
           hits == {i \in 1..Len(entries) : entries[i].txHash = txHash}
           index == IF hits = {} THEN 0 - 1
                    ELSE CHOOSE i \in hits : \A j \in hits : i <= j
       IN  /\ IF historyFile.kind = "data" /\ index # 0 - 1
              THEN historyFile' =
                     [historyFile EXCEPT !.entries[index] = Merge(@, updates)]
              ELSE UNCHANGED historyFile
           /\ historyCall' = [op |-> "updateHistory", n |-> historyCall.n + 1,
                              txHash |-> txHash, updates |-> updates,
                              index |-> index]
    /\ UNCHANGED historyLog
    /\ HistoryFrame

\* What getHistory(limit, address) returns for a file.
getHistory(file, limit, address) ==
    LET entries == EntriesOf(file)
        filtered ==
          IF address # <<>> /\ address[1] # <<>>
          THEN SelectSeq(entries,
                 LAMBDA e : /\ e.walletAddress # <<>>
                            /\ toLowerCase(e.walletAddress[1])
                                 = toLowerCase(address[1]))
          ELSE entries
    IN  Reverse(Slice(filtered, 0 - limit))

\* What getHistoryEntry(txHash) returns for a file: the first match in
\* what getHistory(MAX_HISTORY_ENTRIES) returns, <<>> for null.
getHistoryEntry(file, txHash) ==
    LET entries == getHistory(file, MAX_HISTORY_ENTRIES, <<>>)
    IN  Find(entries, {i \in 1..Len(entries) : entries[i].txHash = txHash})

\* getHistory(limit, address); ret is what it returned.
GetHistory(limit, address) ==
    /\ historyCall.n < MaxHistoryCalls
    /\ historyCall' = [op |-> "getHistory", n |-> historyCall.n + 1,
                       limit |-> limit, address |-> address,
                       ret |-> getHistory(historyFile, limit, address)]
    /\ UNCHANGED <<historyFile, historyLog>>
    /\ HistoryFrame

\* getHistoryEntry(txHash); ret is what it returned.
GetHistoryEntry(txHash) ==
    /\ historyCall.n < MaxHistoryCalls
    /\ historyCall' = [op |-> "getHistoryEntry", n |-> historyCall.n + 1,
                       txHash |-> txHash,
                       ret |-> getHistoryEntry(historyFile, txHash)]
    /\ UNCHANGED <<historyFile, historyLog>>
    /\ HistoryFrame

HistoryNext ==
    \/ \E txHash \in TxHashes, wallet \in Wallets : AddHistory(txHash, wallet)
    \/ \E txHash \in UpdateHashes, updates \in Updates :
          UpdateHistory(txHash, updates)
    \/ \E limit \in Limits, address \in Addresses : GetHistory(limit, address)
    \/ \E txHash \in UpdateHashes : GetHistoryEntry(txHash)

HistorySpec == HistoryInit /\ [][HistoryNext]_vars

\* ---- Two CLI processes on one history file --------------------------------
\* addHistory and updateHistory read the whole file, change the parsed
\* content in memory and write the whole file back; nothing locks the file
\* between the read and the write.

Processes == {1, 2}

\* The calls a process makes.
RaceCalls ==
    {[op |-> "addHistory", txHash |-> h, updates |-> <<>>] : h \in TxHashes}
    \cup {[op |-> "updateHistory", txHash |-> "0xa1", updates |-> u] :
             u \in Updates}

\* The entry process p adds.
RaceEntry(p, txHash) ==
    HistoryEntry(txHash, << <<"0", "x", "a", "b">> >>, MAX_HISTORY_ENTRIES + p)

\* What a call computes from the file it read: the content it will write
\* and whether it reaches writeFileSync at all.
Apply(file, p, call) ==
    IF call.op = "addHistory"
    THEN [writes |-> TRUE,
          data |-> [kind |-> "data",
                    entries |-> Trim(Append(EntriesOf(file),
                                            RaceEntry(p, call.txHash)))]]
    ELSE LET entries == file.entries
             hits == {i \in 1..Len(entries) : entries[i].txHash = call.txHash}
             index == IF hits = {} THEN 0 - 1
                      ELSE CHOOSE i \in hits : \A j \in hits : i <= j
         IN  IF file.kind = "data" /\ index # 0 - 1
             THEN [writes |-> TRUE,
                   data |-> [file EXCEPT
                               !.entries[index] = Merge(@, call.updates)]]
             ELSE [writes |-> FALSE, data |-> file]

\* A write-back that redoes the call on the file as it is at the time of
\* the write (used to test C21).
WriteBackFresh(file, p, proc) == Apply(file, p, proc.call).data

\* fs.writeFileSync(HISTORY_PATH, JSON.stringify(data)): the file becomes
\* the content computed from what the process read.
WriteBack(file, p, proc) == proc.data

IdleProcess == [pc |-> "idle"]

HistoryRaceFrame ==
    UNCHANGED <<bridgeVars, quoteDisplay, configFile, configCall, historyLog,
                historyCall, defaultRpc, statusView, wizard>>

HistoryRaceInit ==
    /\ BridgeNotRun
    /\ quoteDisplay = QuoteNotRun
    /\ configFile = NoConfigFile
    /\ configCall = NoCall
    /\ defaultRpc = <<>>
    /\ statusView = StatusNotRun
    /\ wizard = WizardNotRun
    /\ historyFile \in {NoHistoryFile,
                        [kind |-> "corrupt", entries |-> <<>>],
                        Written(1),
                        Written(MAX_HISTORY_ENTRIES)}
    /\ historyLog = historyFile.entries
    /\ historyCall = NoCall
    /\ race = [pc |-> "on", procs |-> [p \in Processes |-> IdleProcess],
               writers |-> <<>>]

\* Process p enters a call and reads the file (existsSync, readFileSync,
\* JSON.parse and the change in memory); a call that finds nothing to write
\* returns here.
RaceRead(p, call) ==
    /\ race.pc = "on"
    /\ race.procs[p].pc = "idle"
    /\ LET out == Apply(historyFile, p, call)
       IN  race' = [race EXCEPT !.procs[p] =
                      [pc |-> IF out.writes THEN "read" ELSE "done",
                       call |-> call, seen |-> historyFile,
                       data |-> out.data, writes |-> out.writes]]
    /\ UNCHANGED historyFile
    /\ HistoryRaceFrame

\* Process p reaches its writeFileSync.
RaceWrite(p) ==
    /\ race.pc = "on"
    /\ race.procs[p].pc = "read"
    /\ historyFile' = WriteBack(historyFile, p, race.procs[p])
    /\ race' = [race EXCEPT !.procs[p].pc = "done",
                            !.writers = Append(@, p)]
    /\ HistoryRaceFrame

HistoryRaceNext ==
    \/ \E p \in Processes, call \in RaceCalls : RaceRead(p, call)
    \/ \E p \in Processes : RaceWrite(p)

HistoryRaceSpec == HistoryRaceInit /\ [][HistoryRaceNext]_vars

\* ---- The status command ----------------------------------------------------
\* Status({ txHash, watch }): one fetch on mount, one more per 5-second tick
\* under --watch; every fetch is an await whose answer arrives when the
\* network delivers it.

MaxPolls == 2

\* What mina.getStatus(txHash) can answer: null, a status, or a throw.
TxStatuses == {"pending", "completed", "failed"}
Answers ==
    {[kind |-> "null"], [kind |-> "throws", message |-> "Failed to fetch status"]}
    \cup {[kind |-> "status", status |-> st] : st \in TxStatuses}

StatusFrame ==
    UNCHANGED <<bridgeVars, quoteDisplay, historyFile, historyLog, historyCall,
                configFile, configCall, defaultRpc, race, wizard>>

\* The state after the first render and the mount effects: useState initial
\* values and the initial fetch in flight (fetch 1).
StatusInit ==
    /\ BridgeNotRun
    /\ quoteDisplay = QuoteNotRun
    /\ historyFile = NoHistoryFile
    /\ historyLog = <<>>
    /\ historyCall = NoCall
    /\ configFile = NoConfigFile
    /\ configCall = NoCall
    /\ defaultRpc = <<>>
    /\ race = NoRace
    /\ wizard = WizardNotRun
    /\ \E watch \in BOOLEAN :
          statusView = [pc |-> "on", watch |-> watch, status |-> <<>>,
                        loading |-> TRUE, error |-> <<>>, notFound |-> FALSE,
                        issued |-> 1, inFlight |-> {1}, exitTimer |-> FALSE,
                        exited |-> FALSE]

\* The four views of the content box.
LoadingShown == statusView.loading
ErrorShown == statusView.error # <<>>
NotFoundShown == statusView.notFound /\ ~statusView.loading
StatusShown ==
    statusView.status # <<>> /\ ~statusView.loading /\ statusView.error = <<>>

\* setTimeout(() => exit(), 100) when not watching and the condition holds.
ArmExit(cond) == statusView.exitTimer \/ (~statusView.watch /\ cond)

\* fetchStatus after its await: the answer of fetch id arrives.
FetchStatus(id, answer) ==
    LET landed == [statusView EXCEPT !.inFlight = @ \ {id}]
    IN  IF answer.kind = "null"
        THEN [landed EXCEPT !.notFound = TRUE, !.loading = FALSE,
                            !.exitTimer = ArmExit(TRUE)]
        ELSE IF answer.kind = "status"
        THEN [landed EXCEPT
                !.status = <<[status |-> answer.status, fetch |-> id]>>,
                !.notFound = FALSE, !.loading = FALSE,
                !.exitTimer = ArmExit(answer.status \in {"completed", "failed"})]
        ELSE [landed EXCEPT !.error = <<answer.message>>, !.loading = FALSE,
                            !.exitTimer = ArmExit(TRUE)]

\* The answer of a fetch in flight arrives.
FetchReturns(id, answer) ==
    /\ statusView.pc = "on"
    /\ ~statusView.exited
    /\ id \in statusView.inFlight
    /\ statusView' = FetchStatus(id, answer)
    /\ StatusFrame

\* The 5-second interval of watch mode fires and starts a fetch.
PollTick ==
    /\ statusView.pc = "on"
    /\ ~statusView.exited
    /\ statusView.watch
    /\ statusView.issued <= MaxPolls
    /\ statusView' = [statusView EXCEPT !.issued = @ + 1,
                                        !.inFlight = @ \cup {statusView.issued + 1}]
    /\ StatusFrame

\* The 100 ms timer fires and calls exit().
ExitTimerFires ==
    /\ statusView.pc = "on"
    /\ ~statusView.exited
    /\ statusView.exitTimer
    /\ statusView' = [statusView EXCEPT !.exitTimer = FALSE, !.exited = TRUE]
    /\ StatusFrame

\* The user stops the program with Ctrl+C.
CtrlC ==
    /\ statusView.pc = "on"
    /\ ~statusView.exited
    /\ statusView' = [statusView EXCEPT !.exited = TRUE]
    /\ StatusFrame

StatusNext ==
    \/ \E id \in 1..(MaxPolls + 1), answer \in Answers : FetchReturns(id, answer)
    \/ PollTick
    \/ ExitTimerFires
    \/ CtrlC

StatusSpec == StatusInit /\ [][StatusNext]_vars

\* The network answers every fetch and the timers of the event loop fire;
\* nothing obliges the user to press Ctrl+C.
StatusFairSpec ==
    /\ StatusSpec
    /\ WF_vars(\E id \in 1..(MaxPolls + 1), answer \in Answers :
                  FetchReturns(id, answer))
    /\ WF_vars(ExitTimerFires)

\* ---- The wizard -------------------------------------------------------------
\* Wizard(): useState(initialState), keyLoading, the global useInput
\* handler and the useInput handler of the step component on screen.  Ink
\* calls every registered handler for one key event; each handler reads
\* the state of the render it was created in and queues functional updates
\* that React applies in the order they were queued.

KEY_HEX_LENGTH == 64
MaxAmountLen == 1

HexChars == {"0", "1", "2", "3", "4", "5", "6", "7", "8", "9",
             "a", "b", "c", "d", "e", "f", "A", "B", "C", "D", "E", "F"}

Repeat(ch, n) == [i \in 1..n |-> ch]

\* The private keys the user sets out to type.
KeyTexts == {Repeat("a", KEY_HEX_LENGTH),
             Repeat("a", KEY_HEX_LENGTH - 1) \o <<"b">>,
             Repeat("a", KEY_HEX_LENGTH - 1) \o <<"c">>}

\* privateKey.startsWith('0x')
StartsWith0x(text) == Len(text) >= 2 /\ text[1] = "0" /\ text[2] = "x"

\* privateKey.startsWith('0x') ? privateKey.slice(2) : privateKey
KeyWithoutPrefix(text) == IF StartsWith0x(text) THEN Drop(text, 2) ELSE text

\* privateKey.startsWith('0x') ? privateKey : `0x${privateKey}`
NormalizedKey(text) == IF StartsWith0x(text) THEN text ELSE <<"0", "x">> \o text

\* /^[0-9a-fA-F]{64}$/.test(text)
IsKeyHex(text) ==
    Len(text) = KEY_HEX_LENGTH /\ \A i \in 1..Len(text) : text[i] \in HexChars

\* The address viem derives from a key.
AddressOf(key) == [of |-> key]

\* The quote getQuote answers with for a request.
QuoteFor(c, t, amount, address) ==
    [fromChainId |-> c.id, fromToken |-> t.address,
     fromAmount |-> TimesPow10ToString(parseFloat(amount), t.decimals),
     fromAddress |-> address]

NoKeyConfirm == [pc |-> "idle"]

WizardFrame ==
    UNCHANGED <<bridgeVars, quoteDisplay, historyFile, historyLog, historyCall,
                configFile, configCall, defaultRpc, race, statusView>>

\* initialState, keyLoading false, nothing executing; cameBack records
\* the key held when the confirm step was left with b, input the last key
\* delivered.
WizardInit ==
    /\ BridgeNotRun
    /\ quoteDisplay = QuoteNotRun
    /\ historyFile = NoHistoryFile
    /\ historyLog = <<>>
    /\ historyCall = NoCall
    /\ configFile = NoConfigFile
    /\ configCall = NoCall
    /\ defaultRpc = <<>>
    /\ race = NoRace
    /\ statusView = StatusNotRun
    /\ wizard = [pc |-> "on", step |-> "chain", chain |-> <<>>, token |-> <<>>,
                 amount |-> <<>>, quote |-> <<>>, error |-> <<>>,
                 privateKey |-> <<>>, walletAddress |-> <<>>,
                 executionStatus |-> "", keyLoading |-> FALSE,
                 call |-> NoKeyConfirm, execPc |-> "idle", executes |-> 0,
                 exited |-> FALSE, cameBack |-> <<>>, input |-> "none"]

\* goBack's updater.
goBack(prev) ==
    IF prev.step = "token"
    THEN [prev EXCEPT !.step = "chain", !.token = <<>>, !.error = <<>>]
    ELSE IF prev.step = "amount"
    THEN [prev EXCEPT !.step = "token", !.amount = <<>>, !.error = <<>>]
    ELSE IF prev.step = "key"
    THEN [prev EXCEPT !.step = "amount", !.privateKey = <<>>,
                      !.walletAddress = <<>>, !.quote = <<>>, !.error = <<>>]
    ELSE IF prev.step = "confirm"
    THEN [prev EXCEPT !.step = "key", !.error = <<>>, !.cameBack = prev.privateKey]
    ELSE prev

\* The global useInput handler of Wizard, created in render r, applied to
\* the state prev the earlier updates of this event left.
GlobalInput(r, prev, input) ==
    IF input = "q" /\ r.step # "execute"
    THEN [prev EXCEPT !.exited = TRUE]
    ELSE IF input = "b" /\ r.step \notin {"chain", "execute", "amount", "key"}
    THEN goBack(prev)
    ELSE IF input = "b" /\ r.step = "amount"
    THEN goBack(prev)
    ELSE IF input = "b" /\ r.step = "key" /\ ~r.keyLoading
    THEN goBack(prev)
    ELSE prev

\* handleAmountConfirm
handleAmountConfirm(r, prev) ==
    LET numAmount == parseFloat(r.amount)
    IN  IF isNaN(numAmount) \/ LeqZero(numAmount)
        THEN [prev EXCEPT !.error = <<"Please enter a valid positive amount">>]
        ELSE [prev EXCEPT !.step = "key", !.error = <<>>]

\* The useInput handler of AmountInputStep.
AmountStepInput(r, prev, input) ==
    IF input = "return" /\ Len(r.amount) > 0
    THEN handleAmountConfirm(r, prev)
    ELSE IF input = "backspace"
    THEN [prev EXCEPT !.amount = SubSeq(r.amount, 1, Len(r.amount) - 1),
                      !.error = <<>>]
    ELSE IF input \in {"0", "1", "2", "3", "4", "5", "6", "7", "8", "9", "."}
    THEN IF \/ input = "." /\ \E i \in 1..Len(r.amount) : r.amount[i] = "."
            \/ input = "0" /\ r.amount = <<"0">>
         THEN prev
         ELSE [prev EXCEPT !.amount = r.amount \o <<input>>, !.error = <<>>]
    ELSE prev

\* privateKey || ''
KeyText(w) == IF w.privateKey = <<>> THEN <<>> ELSE w.privateKey[1]

\* handleKeyConfirm up to its first await.
handleKeyConfirm(r, prev) ==
    IF KeyText(r) = <<>> \/ r.chain = <<>> \/ r.token = <<>>
    THEN prev
    ELSE IF ~IsKeyHex(KeyWithoutPrefix(KeyText(r)))
    THEN [prev EXCEPT !.error =
            <<"Invalid private key format. Expected 64 hex characters.">>]
    ELSE [prev EXCEPT !.keyLoading = TRUE,
                      !.call = [pc |-> "address",
                                privateKey |-> NormalizedKey(KeyText(r)),
                                chain |-> r.chain[1], token |-> r.token[1],
                                amount |-> r.amount]]

\* The useInput handler of KeyInputStep.
KeyStepInput(r, prev, input) ==
    IF r.keyLoading
    THEN prev
    ELSE IF input = "return" /\ Len(KeyText(r)) >= KEY_HEX_LENGTH
    THEN handleKeyConfirm(r, prev)
    ELSE IF input = "backspace"
    THEN [prev EXCEPT
            !.privateKey = <<SubSeq(KeyText(r), 1, Len(KeyText(r)) - 1)>>,
            !.error = <<>>]
    ELSE IF input \in HexChars \cup {"x"}
    THEN [prev EXCEPT !.privateKey = <<KeyText(r) \o <<input>>>>,
                      !.error = <<>>]
    ELSE prev

\* The useInput handler of ConfirmationStep.
ConfirmStepInput(r, prev, input) ==
    IF input = "return" /\ r.quote # <<>>
    THEN [prev EXCEPT !.step = "execute", !.error = <<>>]
    ELSE prev

\* The handler of the step component render r shows.
StepInput(r, prev, input) ==
    IF r.step = "amount" THEN AmountStepInput(r, prev, input)
    ELSE IF r.step = "key" THEN KeyStepInput(r, prev, input)
    ELSE IF r.step = "confirm" THEN ConfirmStepInput(r, prev, input)
    ELSE prev

\* The keys the user presses in a state: Enter, backspace and q anywhere,
\* b outside the key step, digits in the amount step up to MaxAmountLen,
\* and in the key step the next character of a key of KeyTexts.
Typed(w) ==
    {"return", "backspace", "q"}
    \cup (IF w.step # "key" THEN {"b"} ELSE {})
    \cup (IF w.step = "amount" /\ Len(w.amount) < MaxAmountLen
          THEN {"0", "1"} ELSE {})
    \cup (IF w.step = "key"
          THEN LET body == KeyWithoutPrefix(KeyText(w))
               IN  {k[Len(body) + 1] : k \in
                      {t \in KeyTexts : /\ Len(body) < Len(t)
                                        /\ SubSeq(t, 1, Len(body)) = body}}
          ELSE {})

\* One key event: both handlers run, in the order their listeners are
\* registered, which depends on which component rendered last.
WizardInput(input) ==
    /\ wizard.pc = "on"
    /\ ~wizard.exited
    /\ input \in Typed(wizard)
    /\ \E stepFirst \in BOOLEAN :
          LET r == wizard
              after == IF stepFirst
                       THEN GlobalInput(r, StepInput(r, r, input), input)
                       ELSE StepInput(r, GlobalInput(r, r, input), input)
          IN  wizard' = [after EXCEPT !.input = input]
    /\ WizardFrame

\* The origin chains ChainSelectionStep lists.
SelectChain(c) ==
    /\ wizard.pc = "on"
    /\ ~wizard.exited
    /\ wizard.step = "chain"
    /\ wizard' = [wizard EXCEPT !.chain = <<c>>, !.step = "token",
                                !.error = <<>>, !.input = "select"]
    /\ WizardFrame

\* The tokens TokenSelectionStep lists.
SelectToken(t) ==
    /\ wizard.pc = "on"
    /\ ~wizard.exited
    /\ wizard.step = "token"
    /\ wizard.chain # <<>>
    /\ wizard' = [wizard EXCEPT !.token = <<t>>, !.step = "amount",
                                !.error = <<>>, !.input = "select"]
    /\ WizardFrame

\* A handleKeyConfirm that keeps a quote the state already holds (used to
\* test C25).
QuoteKeptIfPresent(w, call) ==
    IF w.quote # <<>> THEN w.quote[1]
    ELSE QuoteFor(call.chain, call.token, call.amount, call.address)

\* The quote handleKeyConfirm stores: the answer to the request it made.
QuoteFetched(w, call) ==
    QuoteFor(call.chain, call.token, call.amount, call.address)

\* handleKeyConfirm: getAddressFromPrivateKey returns, getQuote is called.
WizardAddressReturns ==
    /\ wizard.pc = "on"
    /\ ~wizard.exited
    /\ wizard.call.pc = "address"
    /\ LET address == AddressOf(wizard.call.privateKey)
       IN  wizard' = [wizard EXCEPT
                        !.walletAddress = <<address>>,
                        !.privateKey = <<wizard.call.privateKey>>,
                        !.call = [wizard.call EXCEPT !.pc = "quote"]
                                   @@ [address |-> address]]
    /\ WizardFrame

\* handleKeyConfirm: getQuote returns.
WizardQuoteReturns ==
    /\ wizard.pc = "on"
    /\ ~wizard.exited
    /\ wizard.call.pc = "quote"
    /\ wizard' = [wizard EXCEPT
                    !.quote = <<QuoteFetched(wizard, wizard.call)>>,
                    !.step = "confirm", !.error = <<>>,
                    !.keyLoading = FALSE, !.call = NoKeyConfirm]
    /\ WizardFrame

\* handleKeyConfirm: either await throws.
WizardKeyConfirmThrows ==
    /\ wizard.pc = "on"
    /\ ~wizard.exited
    /\ wizard.call.pc \in {"address", "quote"}
    /\ wizard' = [wizard EXCEPT
                    !.error = <<"Failed to validate key or fetch quote">>,
                    !.keyLoading = FALSE, !.call = NoKeyConfirm]
    /\ WizardFrame

\* An effect that runs again on a later render of the mounted component
\* (used to test C24).
EffectDueEveryRender(w) ==
    w.step = "execute" /\ w.execPc \in {"idle", "execute"}

\* ExecutionStep's effect has the dependency list []: it runs once, when
\* the component mounts.
MountEffectDue(w) == w.step = "execute" /\ w.execPc = "idle"

\* ExecutionStep mounts and its effect calls executeBridge.
ExecutionStepMount ==
    /\ wizard.pc = "on"
    /\ ~wizard.exited
    /\ wizard.chain # <<>> /\ wizard.token # <<>>
    /\ wizard.quote # <<>> /\ KeyText(wizard) # <<>>
    /\ MountEffectDue(wizard)
    /\ wizard' = [wizard EXCEPT !.execPc = "createSigner"]
    /\ WizardFrame

\* createSigner returns and mina.execute is called, or it throws for a
\* chain outside its chainMap.
WizardCreateSignerReturns ==
    /\ wizard.pc = "on"
    /\ ~wizard.exited
    /\ wizard.execPc = "createSigner"
    /\ IF wizard.chain[1].id \in SupportedChainIds
       THEN wizard' = [wizard EXCEPT !.execPc = "execute",
                                     !.executes = @ + 1]
       ELSE wizard' = [wizard EXCEPT !.execPc = "done",
                                     !.error = <<"Unsupported chain ID">>,
                                     !.executionStatus = "failed"]
    /\ WizardFrame

\* mina.execute returns completed or failed, or throws.
WizardExecuteReturns(outcome) ==
    /\ wizard.pc = "on"
    /\ ~wizard.exited
    /\ wizard.execPc = "execute"
    /\ wizard' = [wizard EXCEPT
                    !.execPc = "done",
                    !.executionStatus = IF outcome = "completed"
                                        THEN "completed" ELSE "failed",
                    !.error = IF outcome = "completed" THEN @
                              ELSE <<"Bridge execution failed">>]
    /\ WizardFrame

WizardNext ==
    \/ \E input \in {"return", "backspace", "q", "b", "0", "1", "a", "c"} :
          WizardInput(input)
    \/ \E i \in 1..Len(Chains) : SelectChain(Chains[i])
    \/ \E i \in 1..Len(Tokens) : SelectToken(Tokens[i])
    \/ WizardAddressReturns
    \/ WizardQuoteReturns
    \/ WizardKeyConfirmThrows
    \/ ExecutionStepMount
    \/ WizardCreateSignerReturns
    \/ \E outcome \in {"completed", "failed", "throws"} :
          WizardExecuteReturns(outcome)

WizardSpec == WizardInit /\ [][WizardNext]_vars

\* One run of the program: the bridge command or the wizard.
CommandSpec == (Init \/ WizardInit) /\ [][Next \/ WizardNext]_vars

(***************************************************************************)
(* The configuration store (lib/config.ts) and the config command that     *)
(* writes it (ConfigSet).  A JSON value is a record of its type t and its   *)
(* content v: the text String() gives for a boolean, a number or a string,  *)
(* and the key-to-value function for an object.  configFile is the file:   *)
(* missing, not parseable, or holding an object from setting name to value. *)
(***************************************************************************)
Value(t, v) == [t |-> t, v |-> v]

DEFAULT_CONFIG ==
    [slippage |-> Value("number", <<"0", ".", "5">>),
     autoDeposit |-> Value("boolean", <<"t", "r", "u", "e">>),
     defaultChain |-> Value("string", <<"a", "r", "b", "i", "t", "r", "u", "m">>),
     rpc |-> Value("object", <<>>)]

VALID_KEYS == <<<<"s", "l", "i", "p", "p", "a", "g", "e">>,
                <<"a", "u", "t", "o", "D", "e", "p", "o", "s", "i", "t">>,
                <<"d", "e", "f", "a", "u", "l", "t", "C", "h", "a", "i", "n">>,
                <<"r", "p", "c">>>>

\* The property name a top-level key selects.
KeyName(key) ==
    CASE key = VALID_KEYS[1] -> "slippage"
      [] key = VALID_KEYS[2] -> "autoDeposit"
      [] key = VALID_KEYS[3] -> "defaultChain"
      [] key = VALID_KEYS[4] -> "rpc"

\* VALID_KEYS.includes(key)
IsTopLevelKey(key) == \E i \in 1..Len(VALID_KEYS) : VALID_KEYS[i] = key

\* String.prototype.split('.')
RECURSIVE split(_)
split(s) ==
    LET first == UpToDot(s)
    IN  IF Len(first) = Len(s) THEN <<s>>
        ELSE <<first>> \o split(Drop(s, Len(first) + 1))

\* String.prototype.trim for blanks.
RECURSIVE trim(_)
trim(s) ==
    IF s # <<>> /\ Head(s) = " " THEN trim(Tail(s))
    ELSE IF s # <<>> /\ s[Len(s)] = " " THEN trim(SubSeq(s, 1, Len(s) - 1))
    ELSE s

\* Number(value): the trimmed text must be a decimal literal as a whole
\* (sign, digits, fraction); the empty text is 0.
Number(value) ==
    LET t == trim(value)
        s1 == IF t # <<>> /\ Head(t) \in {"-", "+"} THEN Tail(t) ELSE t
        whole == DigitPrefix(s1)
        s2 == Drop(s1, Len(whole))
        frac == IF s2 # <<>> /\ Head(s2) = "." THEN DigitPrefix(Tail(s2)) ELSE <<>>
        used == Len(whole) + (IF s2 # <<>> /\ Head(s2) = "." THEN 1 + Len(frac) ELSE 0)
    IN  IF t = <<>> THEN [nan |-> FALSE, neg |-> FALSE, mant |-> 0, scale |-> 0]
        ELSE IF used = Len(s1) THEN parseFloat(t) ELSE NaN

\* parseValue: a boolean literal, else a number, else the text itself.
parseValue(value) ==
    IF toLowerCase(value) = <<"t", "r", "u", "e">> THEN Value("boolean", <<"t", "r", "u", "e">>)
    ELSE IF toLowerCase(value) = <<"f", "a", "l", "s", "e">> THEN Value("boolean", <<"f", "a", "l", "s", "e">>)
    ELSE IF ~isNaN(Number(value)) /\ trim(value) # <<>>
         THEN Value("number", TimesPow10ToString(Number(value), 0))
    ELSE Value("string", value)

\* isValidKey
isValidKey(key) ==
    LET parts == split(key)
    IN  IF Len(parts) = 2 /\ parts[1] = VALID_KEYS[4] THEN TRUE
        ELSE IsTopLevelKey(key)

\* A value that counts as false in a condition.
Falsy(value) ==
    \/ value.t = "boolean" /\ value.v = <<"f", "a", "l", "s", "e">>
    \/ value.t = "number" /\ value.v = <<"0">>
    \/ value.t = "string" /\ value.v = <<>>

\* { ...(rpc || {}) }: the properties of an object, the characters of a
\* string under their indices, nothing for a number or a boolean.
SpreadRpc(value) ==
    IF value.t = "object" THEN value.v
    ELSE IF value.t = "string"
         THEN [k \in {IntToStr(i - 1) : i \in 1..Len(value.v)} |->
                 Value("string", <<value.v[DigitsToInt(k) + 1]>>)]
    ELSE <<>>

\* { ...a, ...b } for two objects.
Over(a, b) ==
    [k \in DOMAIN a \cup DOMAIN b |-> IF k \in DOMAIN b THEN b[k] ELSE a[k]]

\* DEFAULT_CONFIG as it is in memory: its rpc property is one object for
\* the life of the process, and rpcDefault is what that object holds.
Defaults(rpcDefault) ==
    [DEFAULT_CONFIG EXCEPT !["rpc"] = Value("object", rpcDefault)]

\* getConfig.  With no readable file the result is { ...DEFAULT_CONFIG },
\* whose rpc is DEFAULT_CONFIG.rpc itself; with a file, rpc is a new object.
getConfig(file, rpcDefault) ==
    IF file.kind # "data" THEN Defaults(rpcDefault)
    ELSE [k \in DOMAIN DEFAULT_CONFIG |->
            IF k = "rpc"
            THEN Value("object",
                       Over(rpcDefault,
                            IF "rpc" \in DOMAIN file.data
                            THEN SpreadRpc(file.data["rpc"]) ELSE <<>>))
            ELSE IF k \in DOMAIN file.data THEN file.data[k]
            ELSE DEFAULT_CONFIG[k]]

\* config.rpc[rpcKey] = value
Put(object, key, value) ==
    [k \in DOMAIN object \cup {key} |-> IF k = key THEN value ELSE object[k]]

\* delete config.rpc[rpcKey]
Remove(object, key) == [k \in DOMAIN object \ {key} |-> object[k]]

\* A setConfig that stores the merged configuration for an unknown key
\* instead of throwing (used to test C17).
setConfigIgnoresUnknown(file, key, value, rpcDefault) ==
    LET config == getConfig(file, rpcDefault)
        keys == split(key)
        rpcKey == IF Len(keys) >= 2 THEN keys[2] ELSE <<>>
    IN  IF Len(keys) = 2 /\ keys[1] = VALID_KEYS[4] /\ rpcKey # <<>>
        THEN [threw |-> FALSE,
              file |-> [kind |-> "data",
                        data |-> [config EXCEPT !["rpc"] =
                                    Value("object", Put(@.v, rpcKey, value))]],
              rpcDefault |-> IF file.kind # "data"
                             THEN Put(rpcDefault, rpcKey, value)
                             ELSE rpcDefault]
        ELSE IF IsTopLevelKey(key)
        THEN [threw |-> FALSE,
              file |-> [kind |-> "data",
                        data |-> [config EXCEPT ![KeyName(key)] = value]],
              rpcDefault |-> rpcDefault]
        ELSE [threw |-> FALSE, file |-> [kind |-> "data", data |-> config],
              rpcDefault |-> rpcDefault]

\* setConfig: whether it threw, the file it leaves, and what
\* DEFAULT_CONFIG.rpc holds afterwards (config.rpc is that object when
\* getConfig found no readable file).
setConfig(file, key, value, rpcDefault) ==
    LET config == getConfig(file, rpcDefault)
        keys == split(key)
        rpcKey == IF Len(keys) >= 2 THEN keys[2] ELSE <<>>
    IN  IF Len(keys) = 2 /\ keys[1] = VALID_KEYS[4] /\ rpcKey # <<>>
        THEN [threw |-> FALSE,
              file |-> [kind |-> "data",
                        data |-> [config EXCEPT !["rpc"] =
                                    Value("object", Put(@.v, rpcKey, value))]],
              rpcDefault |-> IF file.kind # "data"
                             THEN Put(rpcDefault, rpcKey, value)
                             ELSE rpcDefault]
        ELSE IF IsTopLevelKey(key)
        THEN [threw |-> FALSE,
              file |-> [kind |-> "data",
                        data |-> [config EXCEPT ![KeyName(key)] = value]],
              rpcDefault |-> rpcDefault]
        ELSE [threw |-> TRUE, file |-> file, rpcDefault |-> rpcDefault]

\* getConfigValue: <<>> is undefined or null, <<v>> is v.
getConfigValue(file, key, rpcDefault) ==
    LET config == getConfig(file, rpcDefault)
        keys == split(key)
        rpcKey == IF Len(keys) >= 2 THEN keys[2] ELSE <<>>
    IN  IF Len(keys) = 2 /\ keys[1] = VALID_KEYS[4] /\ rpcKey # <<>>
        THEN (IF rpcKey \in DOMAIN config["rpc"].v
              THEN <<config["rpc"].v[rpcKey]>> ELSE <<>>)
        ELSE IF IsTopLevelKey(key) THEN <<config[KeyName(key)]>>
        ELSE <<>>

\* String(value)
String(value) ==
    IF value.t = "object" THEN <<"[", "o", "b", "j", "e", "c", "t", " ", "O", "b", "j", "e", "c", "t", "]">> ELSE value.v

commonChains == <<<<"e", "t", "h", "e", "r", "e", "u", "m">>,
                  <<"a", "r", "b", "i", "t", "r", "u", "m">>,
                  <<"p", "o", "l", "y", "g", "o", "n">>,
                  <<"o", "p", "t", "i", "m", "i", "s", "m">>,
                  <<"b", "a", "s", "e">>>>

\* The rows getConfigList builds from a readable or missing file: the three
\* settings, the five common chains, and (as a set) the other chains that
\* have a URL.
getConfigList(file, rpcDefault) ==
    LET config == getConfig(file, rpcDefault)
        savedConfig == IF file.kind = "data" THEN file.data ELSE <<>>
        rpc == config["rpc"].v
        top == [i \in 1..3 |->
                  [key |-> VALID_KEYS[i],
                   value |-> String(config[KeyName(VALID_KEYS[i])]),
                   isDefault |-> KeyName(VALID_KEYS[i]) \notin DOMAIN savedConfig]]
        common == [i \in 1..Len(commonChains) |->
                  LET set == commonChains[i] \in DOMAIN rpc
                             /\ ~Falsy(rpc[commonChains[i]])
                  IN  [key |-> VALID_KEYS[4] \o <<".">> \o commonChains[i],
                       value |-> IF set THEN String(rpc[commonChains[i]])
                                 ELSE <<"(", "d", "e", "f", "a", "u", "l", "t", ")">>,
                       isDefault |-> ~set]]
        custom == {[key |-> VALID_KEYS[4] \o <<".">> \o c,
                    value |-> String(rpc[c]), isDefault |-> FALSE] :
                     c \in {k \in DOMAIN rpc :
                              /\ \A i \in 1..Len(commonChains) : commonChains[i] # k
                              /\ ~Falsy(rpc[k])}}
    IN  [items |-> top \o common, custom |-> custom]

\* What the calls are given.
ConfigKeys == { VALID_KEYS[1], VALID_KEYS[2], VALID_KEYS[3], VALID_KEYS[4],
                <<"r", "p", "c", ".", "a", "r", "b", "i", "t", "r", "u", "m">>,
                <<"r", "p", "c", ".">>,
                <<"b", "o", "g", "u", "s">> }
ConfigValues == { <<"t", "r", "u", "e">>, <<"1", ".", "5", "0">>, <<"a", "b", "c">> }

ConfigInit ==
    /\ BridgeNotRun
    /\ MoreAtRest
    /\ quoteDisplay = QuoteNotRun
    /\ historyFile = NoHistoryFile
    /\ historyLog = <<>>
    /\ historyCall = NoCall
    /\ configFile \in {NoConfigFile,
                       [kind |-> "corrupt", data |-> <<>>],
                       [kind |-> "data", data |-> DEFAULT_CONFIG]}
    /\ configCall = NoCall

ConfigFrame == UNCHANGED <<bridgeVars, quoteDisplay, historyFile, historyLog,
                           historyCall, race, statusView, wizard>>

\* A call of setConfig(key, value).
SetConfig(key, value) ==
    /\ configCall.n < MaxConfigCalls
    /\ LET outcome == setConfig(configFile, key, value, defaultRpc)
       IN  /\ configFile' = outcome.file
           /\ defaultRpc' = outcome.rpcDefault
           /\ configCall' = [op |-> "setConfig", n |-> configCall.n + 1,
                             key |-> key, threw |-> outcome.threw]
    /\ ConfigFrame

\* `mina config set <key> <value>`: the effect of the ConfigSet component,
\* in a process of its own, whose DEFAULT_CONFIG is as loaded.
ConfigSet(configKey, configValue) ==
    /\ configCall.n < MaxConfigCalls
    /\ IF ~isValidKey(configKey)
       THEN /\ UNCHANGED configFile
            /\ configCall' = [op |-> "ConfigSet", n |-> configCall.n + 1,
                              key |-> configKey, valid |-> FALSE,
                              error |-> TRUE, success |-> FALSE]
       ELSE LET parsed == parseValue(configValue)
                outcome == setConfig(configFile, configKey, parsed, <<>>)
            IN  /\ configFile' = outcome.file
                /\ configCall' = [op |-> "ConfigSet", n |-> configCall.n + 1,
                                  key |-> configKey, valid |-> TRUE,
                                  error |-> outcome.threw,
                                  success |-> ~outcome.threw]
    /\ UNCHANGED defaultRpc
    /\ ConfigFrame

\* A call of getConfig().
GetConfig ==
    /\ configCall.n < MaxConfigCalls
    /\ configCall' = [op |-> "getConfig", n |-> configCall.n + 1,
                      threw |-> FALSE,
                      ret |-> getConfig(configFile, defaultRpc)]
    /\ UNCHANGED <<configFile, defaultRpc>>
    /\ ConfigFrame

\* A call of getConfigValue(key).
GetConfigValue(key) ==
    /\ configCall.n < MaxConfigCalls
    /\ configCall' = [op |-> "getConfigValue", n |-> configCall.n + 1,
                      key |-> key, threw |-> FALSE,
                      ret |-> getConfigValue(configFile, key, defaultRpc)]
    /\ UNCHANGED <<configFile, defaultRpc>>
    /\ ConfigFrame

\* A call of getConfigList(): its JSON.parse of the file is outside any try.
GetConfigList ==
    /\ configCall.n < MaxConfigCalls
    /\ configCall' =
         IF configFile.kind = "corrupt"
         THEN [op |-> "getConfigList", n |-> configCall.n + 1,
               threw |-> TRUE, ret |-> <<>>]
         ELSE [op |-> "getConfigList", n |-> configCall.n + 1,
               threw |-> FALSE,
               ret |-> getConfigList(configFile, defaultRpc)]
    /\ UNCHANGED <<configFile, defaultRpc>>
    /\ ConfigFrame

\* A call of resetConfig(key): it never throws and always writes.
ResetConfig(key) ==
    /\ configCall.n < MaxConfigCalls
    /\ LET config == getConfig(configFile, defaultRpc)
           keys == split(key)
           rpcKey == IF Len(keys) >= 2 THEN keys[2] ELSE <<>>
       IN  IF Len(keys) = 2 /\ keys[1] = VALID_KEYS[4] /\ rpcKey # <<>>
           THEN /\ configFile' =
                     [kind |-> "data",
                      data |-> [config EXCEPT !["rpc"] =
                                  Value("object", Remove(@.v, rpcKey))]]
                /\ defaultRpc' = IF configFile.kind # "data"
                                 THEN Remove(defaultRpc, rpcKey)
                                 ELSE defaultRpc
           ELSE /\ configFile' =
                     [kind |-> "data",
                      data |-> IF IsTopLevelKey(key)
                               THEN [config EXCEPT ![KeyName(key)] =
                                       Defaults(defaultRpc)[KeyName(key)]]
                               ELSE config]
                /\ UNCHANGED defaultRpc
    /\ configCall' = [op |-> "resetConfig", n |-> configCall.n + 1, key |-> key]
    /\ ConfigFrame

\* A call of resetAllConfig(): DEFAULT_CONFIG, as it is in memory, is
\* written.
ResetAllConfig ==
    /\ configCall.n < MaxConfigCalls
    /\ configFile' = [kind |-> "data", data |-> Defaults(defaultRpc)]
    /\ configCall' = [op |-> "resetAllConfig", n |-> configCall.n + 1]
    /\ UNCHANGED defaultRpc
    /\ ConfigFrame

ConfigNext ==
    \/ \E key \in ConfigKeys, value \in ConfigValues :
          SetConfig(key, parseValue(value))
    \/ \E configKey \in ConfigKeys, configValue \in ConfigValues :
          ConfigSet(configKey, configValue)
    \/ GetConfig
    \/ \E key \in ConfigKeys : GetConfigValue(key)
    \/ GetConfigList
    \/ \E key \in ConfigKeys : ResetConfig(key)
    \/ ResetAllConfig

ConfigSpec == ConfigInit /\ [][ConfigNext]_vars

(***************************************************************************)
(* The claims.                                                             *)
(***************************************************************************)
\* A parsed amount that is a number above zero.
Valid(x) == ~isNaN(x) /\ ~LeqZero(x)

\* amount * 10^decimals cut to an integer (toward zero), as a digit string.
TruncatedUnits(x, decimals) ==
    IntToStr((x.mant * Pow10(decimals)) \div Pow10(x.scale))

\* C1: in every reachable state at most one phase is active, every phase
\* left of the active one is completed or failed, and every phase right of
\* it is pending.
C1_OneActivePhaseInOrder ==
    \A i \in 1..5 :
        stepState[Phases[i]] = "active" =>
            /\ \A j \in 1..5 : j # i => stepState[Phases[j]] # "active"
            /\ \A j \in 1..(i - 1) :
                   stepState[Phases[j]] \in {"completed", "failed"}
            /\ \A j \in (i + 1)..5 : stepState[Phases[j]] = "pending"

\* C2: started with --yes, once the quote has arrived and the auto-confirm
\* timer has run, the flow has left confirming without a key press.
C2_YesLeavesConfirming ==
    (options.yes /\ timer = "fired" /\ ~exited) => state # "confirming"

\* C3: every Mina.execute call is made before the expiry time of the quote
\* it is given.
C3_NoExecuteWithExpiredQuote ==
    \A i \in DOMAIN executeCalls :
        executeCalls[i].at < executeCalls[i].quote.expiresAt

\* C4: after the well-formed event sequence and a completed result all five
\* phases are completed, and in a run that follows the sequence no phase is
\* completed that has not been active before.
C4_WellFormedRunCompletes ==
    /\ wf = 6 => /\ state = "completed"
                 /\ \A p \in PhaseSet : stepState[p] = "completed"
    /\ wf # -1 => \A p \in PhaseSet :
                      stepState[p] = "completed" => p \in wasActive

\* C4's case: the whole well-formed sequence and the completed result.
C4_Witness == wf = 6 /\ state = "completed"

\* C5: a phase that is completed or failed never returns to pending or
\* active.
C5_PhasesOnlyMoveForward ==
    [][\A p \in PhaseSet :
          stepState[p] \in {"completed", "failed"} =>
              stepState'[p] \notin {"pending", "active"}]_vars

\* C6: no getQuote call is made for an amount that parses to NaN or to a
\* value <= 0.
C6_NoQuoteForInvalidAmount ==
    \A i \in DOMAIN quoteRequests : Valid(parseFloat(quoteRequests[i].amount))

\* C7: the fromAmount of every getQuote call is amount * 10^decimals cut to
\* an integer, written as an integer string.
C7_FromAmountTruncated ==
    \A i \in DOMAIN quoteRequests :
        LET r == quoteRequests[i]
        IN  Valid(parseFloat(r.amount)) =>
                r.fromAmount = TruncatedUnits(parseFloat(r.amount), r.decimals)

\* C8: once an exception was raised while loading, quoting or executing,
\* the state is failed and the error is the normalized exception.
C8_ExceptionsEndInFailed ==
    thrown # <<>> =>
        /\ state = "failed"
        /\ error = <<normalizeError(thrown[1])>>

\* C8's case: an exception raised by Mina.execute after a successful load.
C8_Witness ==
    /\ thrown # <<>>
    /\ loadPc = "done" /\ quote # <<>>
    /\ executeCalls # <<>>

\* C9: in failed, a recovery hint is attached exactly when the code of the
\* normalized error has an entry in RECOVERY_ACTIONS.
C9_HintIffRecognizedCode ==
    state = "failed" =>
        (recoveryAction # <<>>
            <=> normalizeError(error[1]).code \in DOMAIN RECOVERY_ACTIONS)

\* C10: failed is final: from a failed state no step leaves failed, and no
\* step issues a getQuote or a Mina.execute call.
C10_NoRetryAfterFailed ==
    [][state = "failed" =>
          /\ state' = "failed"
          /\ quoteRequests' = quoteRequests
          /\ executeCalls' = executeCalls]_vars

\* C10's case: the run failed after Mina.execute was called, and the
\* auto-confirm timer ran after that.
C10_Witness ==
    /\ state = "failed"
    /\ executeCalls # <<>>
    /\ timer = "fired"

\* The spellings that denote the chain Arbitrum: its id, its name, and its
\* key in lower and upper case.
ArbitrumSpellings == { <<"4", "2", "1", "6", "1">>,
                       <<"A", "r", "b", "i", "t", "r", "u", "m">>,
                       <<"a", "r", "b", "i", "t", "r", "u", "m">>,
                       <<"A", "R", "B", "I", "T", "R", "U", "M">> }

\* C11: once the quote command has looked the chain up, every spelling of
\* Arbitrum (id, name, key in either case) has resolved to the one chain
\* record.
C11_SameChainForIdNameKey ==
    quoteDisplay.fromChain \in ArbitrumSpellings =>
        /\ quoteDisplay.error # <<"Unknown chain">>
        /\ quoteDisplay.sourceChain \in {<<>>, <<Arbitrum>>}

\* C12: once the bridge command has started a bridge (Mina.execute was
\* called), the history store holds an entry for it.
C12_BridgeRecordedInHistory ==
    executeCalls # <<>> =>
        /\ historyFile.kind = "data"
        /\ historyFile.entries # <<>>

\* C13: the history file holds at most MAX_HISTORY_ENTRIES entries, and they
\* are the entries added last, in the order they were added.
C13_HistoryKeepsLast100 ==
    historyFile.kind = "data" =>
        LET n == Len(historyLog)
            kept == IF n < MAX_HISTORY_ENTRIES THEN n ELSE MAX_HISTORY_ENTRIES
        IN  /\ Len(historyFile.entries) <= MAX_HISTORY_ENTRIES
            /\ Len(historyFile.entries) = kept
            /\ \A i \in 1..kept :
                  LET e == historyFile.entries[i]
                      a == historyLog[n - kept + i]
                  IN  /\ e.timestamp = a.timestamp
                      /\ e.txHash = a.txHash
                      /\ e.walletAddress = a.walletAddress

\* C13's case: more entries were added than the store keeps.
C13_Witness ==
    /\ historyCall.op = "addHistory"
    /\ Len(historyLog) > MAX_HISTORY_ENTRIES + 1
    /\ Len(historyFile.entries) = MAX_HISTORY_ENTRIES

\* C14: getHistory(limit, address) returned at most limit entries, all of
\* the wallet address without case, and they are the matching entries added
\* last, the most recent first.
C14_GetHistoryLimitAndFilter ==
    (historyCall.op = "getHistory" /\ historyCall.address # <<>>) =>
        LET ret == historyCall.ret
            limit == historyCall.limit
            address == historyCall.address[1]
            matching ==
              SelectSeq(EntriesOf(historyFile),
                        LAMBDA e : /\ e.walletAddress # <<>>
                                   /\ toLowerCase(e.walletAddress[1])
                                        = toLowerCase(address))
            k == IF limit < Len(matching) THEN limit ELSE Len(matching)
        IN  /\ Len(ret) <= limit
            /\ \A i \in 1..Len(ret) :
                  /\ ret[i].walletAddress # <<>>
                  /\ toLowerCase(ret[i].walletAddress[1]) = toLowerCase(address)
            /\ ret = [i \in 1..k |-> matching[Len(matching) + 1 - i]]

\* C15: an updateHistory call changes, in the first entry whose txHash is
\* equal, the fields its update names and nothing else; every other entry,
\* the length and the order stay; with no such entry, or no readable file,
\* the file stays as it was.
C15_UpdateHistoryFrame ==
    [][historyCall'.op = "updateHistory" =>
         LET txHash == historyCall'.txHash
             updates == historyCall'.updates
             old == historyFile.entries
             new == historyFile'.entries
             hits == IF historyFile.kind = "data"
                     THEN {i \in 1..Len(old) : old[i].txHash = txHash}
                     ELSE {}
         IN  IF hits = {}
             THEN historyFile' = historyFile
             ELSE /\ historyFile'.kind = historyFile.kind
                  /\ Len(new) = Len(old)
                  /\ \E i \in hits :
                        /\ \A j \in 1..Len(old) : j # i => new[j] = old[j]
                        /\ DOMAIN new[i] = DOMAIN old[i]
                        /\ \A f \in DOMAIN old[i] :
                              new[i][f] = IF f \in DOMAIN updates
                                          THEN updates[f] ELSE old[i][f]]_vars

\* C15's case: an update found its entry, among others, and that entry
\* carried a field the update does not name.
C15_Witness ==
    /\ historyCall.op = "updateHistory"
    /\ historyCall.index > 1
    /\ DOMAIN historyCall.updates = {"bridgeTxHash"}
    /\ historyFile.entries[historyCall.index].depositTxHash # <<>>

\* A key of the nested form rpc.<chainKey>.
IsRpcKey(key) ==
    LET parts == split(key)
    IN  Len(parts) = 2 /\ parts[1] = <<"r", "p", "c">>

\* C16: isValidKey holds exactly for the setting names slippage,
\* autoDeposit and defaultChain and for the keys rpc.<chainKey>; it is
\* false for "rpc" alone and for any other name.
C16_IsValidKeyExactly ==
    configCall.op = "ConfigSet" =>
        (configCall.valid <=>
            \/ configCall.key \in {VALID_KEYS[1], VALID_KEYS[2], VALID_KEYS[3]}
            \/ IsRpcKey(configCall.key))

\* A key that is neither in the whitelist nor rpc.<chainKey> with a chain
\* key.
UnknownKey(key) ==
    /\ ~IsTopLevelKey(key)
    /\ ~(IsRpcKey(key) /\ split(key)[2] # <<>>)

\* C17: a setConfig call throws exactly for the unknown keys, and a call
\* that throws leaves the config file as it was.
C17_SetConfigRejectsUnknownKey ==
    [][configCall'.op = "setConfig" =>
         /\ configCall'.threw <=> UnknownKey(configCall'.key)
         /\ configCall'.threw => configFile' = configFile]_vars

\* C17's case: setConfig threw for an unknown key while the file held
\* settings written before.
C17_Witness ==
    /\ configCall.op = "setConfig"
    /\ configCall.threw
    /\ configCall.key = <<"b", "o", "g", "u", "s">>
    /\ configFile.kind = "data"
    /\ configFile.data["slippage"].t = "string"

\* C18: a read of the configuration (getConfig, getConfigValue,
\* getConfigList) never throws, and with the file missing or unreadable
\* getConfig returns the defaults.
C18_ReadsNeverThrow ==
    configCall.op \in {"getConfig", "getConfigValue", "getConfigList"} =>
        /\ ~configCall.threw
        /\ (configCall.op = "getConfig" /\ configFile.kind # "data")
              => configCall.ret = DEFAULT_CONFIG

\* The shape of CliConfig: a number, a boolean, a string, and a map from
\* chain key to URL string.
HasShape(config) ==
    /\ config["slippage"].t = "number"
    /\ config["autoDeposit"].t = "boolean"
    /\ config["defaultChain"].t = "string"
    /\ config["rpc"].t = "object"
    /\ \A k \in DOMAIN config["rpc"].v : config["rpc"].v[k].t = "string"

\* C19: a `config set` that the command accepts keeps the shape of the
\* configuration getConfig returns.
C19_ConfigSetKeepsShape ==
    [][(/\ configCall'.op = "ConfigSet"
        /\ configCall'.success
        /\ HasShape(getConfig(configFile, <<>>)))
          => HasShape(getConfig(configFile', <<>>))]_vars

\* The chain ids createSigner is to accept.
AllowList == {1, 10, 56, 137, 998, 999, 8453, 42161, 43114}

C27_ResetAllRestoresDefaults ==
    configCall.op = "resetAllConfig" =>
        LET config == getConfig(configFile, defaultRpc)
        IN  /\ \A k \in {"slippage", "autoDeposit", "defaultChain"} :
                  config[k] = DEFAULT_CONFIG[k]
            /\ config["rpc"].t = "object"
            /\ DOMAIN config["rpc"].v = {}

\* C28: isValidKey and setConfig agree: for a key the config command finds
\* valid, setConfig stores the value without throwing, and for a key it
\* finds invalid the file stays as it was.
C28_ValidKeyIffStored ==
    configCall.op = "ConfigSet" => (configCall.valid <=> configCall.success)

\* C29: after an updateHistory call that found an entry with its txHash,
\* getHistoryEntry of that txHash returns an entry that carries the fields
\* of the update.
C29_UpdateThenGetEntry ==
    (historyCall.op = "updateHistory" /\ historyCall.index # 0 - 1
       /\ historyFile.kind = "data") =>
        LET ret == getHistoryEntry(historyFile, historyCall.txHash)
        IN  /\ ret # <<>>
            /\ \A f \in DOMAIN historyCall.updates :
                  ret[1][f] = historyCall.updates[f]

\* C21: with two processes interleaving their reads and writes, once both
\* have returned the file is the whole content the last writer computed
\* from what it had read, whatever the other process wrote in between.
C21_LastWriterWins ==
    (race.pc = "on" /\ race.writers # <<>>
       /\ \A p \in Processes : race.procs[p].pc = "done") =>
        historyFile = race.procs[race.writers[Len(race.writers)]].data

\* C21's case: both processes read the same file, both added an entry and
\* wrote, and the entry of the first writer is not in the final file.
C21_Witness ==
    /\ race.pc = "on"
    /\ Len(race.writers) = 2
    /\ \A p \in Processes : /\ race.procs[p].pc = "done"
                             /\ race.procs[p].call.op = "addHistory"
    /\ race.procs[1].seen = race.procs[2].seen
    /\ LET first == race.writers[1]
       IN  \A i \in 1..Len(historyFile.entries) :
              historyFile.entries[i] # RaceEntry(first, race.procs[first].call.txHash)

\* C22: under --watch the status held for display is never replaced by the
\* answer of a fetch issued earlier than the fetch whose answer it holds.
C22_NoOlderAnswerDisplayed ==
    [][(statusView.pc = "on" /\ statusView.watch
          /\ statusView.status # <<>> /\ statusView'.status # <<>>) =>
         statusView'.status[1].fetch >= statusView.status[1].fetch]_vars

\* C23: without --watch the command eventually exits, whatever the fetch
\* answered.
C23_EventuallyExits ==
    (statusView.pc = "on" /\ ~statusView.watch) ~> statusView.exited

\* Exactly one of the loading, error, not-found and status views is shown.
ExactlyOneView ==
    Cardinality({v \in {"loading", "error", "notFound", "status"} :
                   \/ v = "loading" /\ LoadingShown
                   \/ v = "error" /\ ErrorShown
                   \/ v = "notFound" /\ NotFoundShown
                   \/ v = "status" /\ StatusShown}) = 1

\* C30: under --watch, when the answer of a poll is a status, the status
\* view is shown after it and it is the only view shown: what earlier polls
\* left in error and notFound is cleared.
C30_StatusAnswerShowsStatus ==
    [][(statusView.pc = "on" /\ statusView.watch
          /\ statusView'.status # <<>>
          /\ statusView'.status[1].fetch
                \in statusView.inFlight \ statusView'.inFlight) =>
         (StatusShown' /\ ExactlyOneView')]_vars

\* C24: in a run of the bridge command and in a run of the wizard,
\* Mina.execute is started at most once.
C24_ExecuteAtMostOnce ==
    /\ Len(executeCalls) <= 1
    /\ wizard.pc = "on" => wizard.executes <= 1

\* C24's case: the bridge command ran with --yes, its timer fired, and
\* Mina.execute was started.
C24_Witness ==
    /\ options.yes
    /\ timer = "fired"
    /\ Len(executeCalls) = 1

\* C25: in step confirm or execute, chain, token, private key, wallet
\* address and quote are set, the address is the key's and the quote is the
\* one for the stored chain, token, amount and address.
C25_QuoteForStoredInputs ==
    (wizard.pc = "on" /\ wizard.step \in {"confirm", "execute"}) =>
        /\ wizard.chain # <<>> /\ wizard.token # <<>>
        /\ wizard.privateKey # <<>> /\ wizard.walletAddress # <<>>
        /\ wizard.quote # <<>>
        /\ wizard.walletAddress[1] = AddressOf(wizard.privateKey[1])
        /\ wizard.quote[1] = QuoteFor(wizard.chain[1], wizard.token[1],
                                      wizard.amount, wizard.walletAddress[1])

\* C25's case: the confirm step was left with b, the key was edited to
\* another key, and the execute step was reached.
C25_Witness ==
    /\ wizard.pc = "on"
    /\ wizard.step = "execute"
    /\ wizard.cameBack # <<>>
    /\ wizard.cameBack # wizard.privateKey

\* C26: in the key step with no validation loading, a hex character typed
\* is appended to the private key and step, amount, chain and token stay.
C26_HexCharIsAppended ==
    [][(wizard.pc = "on" /\ wizard.step = "key" /\ ~wizard.keyLoading
          /\ wizard' # wizard /\ wizard'.input \in HexChars) =>
         /\ wizard'.privateKey = <<KeyText(wizard) \o <<wizard'.input>>>>
         /\ wizard'.step = wizard.step
         /\ wizard'.amount = wizard.amount
         /\ wizard'.chain = wizard.chain
         /\ wizard'.token = wizard.token]_vars

====
